---- MODULE Spec2Model ----
(***************************************************************************)
(* The scan service of SecureWebOpsApp (the security-scan edge function): *)
(* target validation, the in-memory rate limiter, the probe, and the scan  *)
(* lifecycle that processScan keeps in the scans / scan_results tables.    *)
(***************************************************************************)
EXTENDS Integers, Sequences, FiniteSets, Bags, TLC

(* ------------------------------------------------------------------ *)
(* Program constants                                                   *)
(* ------------------------------------------------------------------ *)
RATE_LIMIT_WINDOW_MS == 60000
RATE_LIMIT_MAX_REQUESTS == 20
MAX_CONCURRENT_SCANS == 5

(* ------------------------------------------------------------------ *)
(* Bounds of the model                                                 *)
(* ------------------------------------------------------------------ *)
\* scan rows the lifecycle specifications may create
MaxScans == 1
\* processScan calls the lifecycle specifications let run at the same time
MaxTasks == 2
\* store operations that fail in one behaviour
MaxFaults == 2
\* clock ticks, each of TickMs milliseconds
MaxTicks == 2
TickMs == 30000
\* admissions per caller that the lifecycle specifications follow
MaxAdmits == 2
\* clock ticks of the rate-limiter specification
RateTicks == 3
\* admissions of the second caller that the rate-limiter specification follows
RateAdmits == 1
\* processScan calls the capacity specification lets run beside its first five
CapExtraTasks == 1
\* the largest number of findings of one severity a score is computed for
MaxCount == 4

\* SQL NULL of a timestamp or a number
Null == -1
\* an id no row ever has
UnknownId == 0

Callers == {"a", "b"}

(* ------------------------------------------------------------------ *)
(* Strings: a hostname or an address is a sequence of characters       *)
(* ------------------------------------------------------------------ *)
Digits == <<"0", "1", "2", "3", "4", "5", "6", "7", "8", "9">>

DigitVal(c) == (CHOOSE i \in 1..10 : Digits[i] = c) - 1

IsDigit(c) == \E i \in 1..10 : Digits[i] = c

Upper == <<"A", "B", "C", "D", "E", "F", "G", "H", "I", "J", "K", "L", "M",
          "N", "O", "P", "Q", "R", "S", "T", "U", "V", "W", "X", "Y", "Z">>
Lower == <<"a", "b", "c", "d", "e", "f", "g", "h", "i", "j", "k", "l", "m",
          "n", "o", "p", "q", "r", "s", "t", "u", "v", "w", "x", "y", "z">>

\* String.prototype.toLowerCase on the letters the model uses
LowerChar(c) == IF \E i \in 1..Len(Upper) : Upper[i] = c
                THEN Lower[CHOOSE i \in 1..Len(Upper) : Upper[i] = c]
                ELSE c

toLowerCase(s) == [i \in 1..Len(s) |-> LowerChar(s[i])]

startsWith(s, p) == Len(s) >= Len(p) /\ SubSeq(s, 1, Len(p)) = p

endsWith(s, p) == Len(s) >= Len(p) /\ SubSeq(s, Len(s) - Len(p) + 1, Len(s)) = p

\* String.prototype.split(sep) for a one-character separator
RECURSIVE split(_, _)
split(s, sep) ==
  IF \A i \in 1..Len(s) : s[i] # sep
  THEN <<s>>
  ELSE LET k == CHOOSE i \in 1..Len(s) : s[i] = sep /\ \A j \in 1..(i - 1) : s[j] # sep
       IN <<SubSeq(s, 1, k - 1)>> \o split(SubSeq(s, k + 1, Len(s)), sep)

NaN == -1

\* Number(part) on the strings a hostname part can be: "" is 0, decimal digits
\* are their value, anything else is NaN
RECURSIVE DecimalValue(_)
DecimalValue(s) ==
  IF Len(s) = 0 THEN 0
  ELSE 10 * DecimalValue(SubSeq(s, 1, Len(s) - 1)) + DigitVal(s[Len(s)])

Number(s) ==
  IF \A i \in 1..Len(s) : IsDigit(s[i]) THEN DecimalValue(s) ELSE NaN

NoIp == <<>>

parseIp(ip) ==
  LET parts == split(ip, ".")
      nums == [i \in 1..Len(parts) |-> Number(parts[i])]
  IN IF Len(parts) # 4 THEN NoIp
     ELSE IF \E i \in 1..4 : nums[i] = NaN \/ nums[i] < 0 \/ nums[i] > 255 THEN NoIp
     ELSE nums

isPrivateOrLocalIp(ip) ==
  LET v4 == parseIp(ip)
      normalized == toLowerCase(ip)
  IN IF v4 # NoIp
     THEN \/ v4[1] = 10
          \/ v4[1] = 127
          \/ (v4[1] = 169 /\ v4[2] = 254)
          \/ (v4[1] = 172 /\ v4[2] >= 16 /\ v4[2] <= 31)
          \/ (v4[1] = 192 /\ v4[2] = 168)
          \/ v4[1] = 0
     ELSE \/ normalized = <<":", ":", "1">>
          \/ startsWith(normalized, <<"f", "c">>)
          \/ startsWith(normalized, <<"f", "d">>)
          \/ startsWith(normalized, <<"f", "e", "8", "0", ":">>)

isBlockedHostname(hostname) ==
  LET host == toLowerCase(hostname)
  IN \/ host = <<"l", "o", "c", "a", "l", "h", "o", "s", "t">>
     \/ endsWith(host, <<".", "l", "o", "c", "a", "l", "h", "o", "s", "t">>)
     \/ endsWith(host, <<".", "l", "o", "c", "a", "l">>)
     \/ isPrivateOrLocalIp(host)

\* an allow-list that takes any host ending in an entry, without the dot
isAllowedTargetBySuffix(hostname, allowed) ==
  IF allowed = {} THEN TRUE
  ELSE LET host == toLowerCase(hostname)
       IN \E entry \in allowed : host = entry \/ endsWith(host, entry)

\* allowlist: the entries of SCAN_TARGET_ALLOWLIST after split, trim, lower-casing
\* and filter(Boolean); the empty set when the variable is unset or blank
isAllowedTarget(hostname, allowed) ==
  IF allowed = {} THEN TRUE
  ELSE LET host == toLowerCase(hostname)
       IN \E entry \in allowed : host = entry \/ endsWith(host, <<".">> \o entry)

\* a resolver check that gives up after a failed A lookup
resolvesToPrivateIpAfterA(dns) ==
  dns.a.ok /\ \/ \E ip \in dns.a.ips : isPrivateOrLocalIp(ip)
              \/ (dns.aaaa.ok /\ \E ip \in dns.aaaa.ips : isPrivateOrLocalIp(ip))

\* dns: the two Deno.resolveDns answers, each [ok, ips]: ok is FALSE when the
\* lookup threw, ips is the set of addresses it returned
resolvesToPrivateIp(dns) ==
  \/ (dns.a.ok /\ \E ip \in dns.a.ips : isPrivateOrLocalIp(ip))
  \/ (dns.aaaa.ok /\ \E ip \in dns.aaaa.ips : isPrivateOrLocalIp(ip))

\* a validator that takes any scheme
validateTargetUrlAnyScheme(target, allowed, dns) ==
  IF ~target.parses THEN "Invalid URL"
  ELSE IF isBlockedHostname(target.hostname)
    THEN "Target is blocked for security reasons"
  ELSE IF ~isAllowedTarget(target.hostname, allowed)
    THEN "Target is not in allowlist"
  ELSE IF resolvesToPrivateIp(dns)
    THEN "Target resolves to a private address"
  ELSE "ok"

ValidTarget == "ok"

\* target: what new URL(rawTarget) makes of the raw string: parses (or throws),
\* protocol and hostname. The result is ValidTarget or the thrown message.
validateTargetUrl(target, allowed, dns) ==
  IF ~target.parses THEN "Invalid URL"
  ELSE IF ~(target.protocol = "http:" \/ target.protocol = "https:")
    THEN "Target must use http:// or https://"
  ELSE IF isBlockedHostname(target.hostname)
    THEN "Target is blocked for security reasons"
  ELSE IF ~isAllowedTarget(target.hostname, allowed)
    THEN "Target is not in allowlist"
  ELSE IF resolvesToPrivateIp(dns)
    THEN "Target resolves to a private address"
  ELSE ValidTarget

\* a raw target string, by its parts: scheme is "http", "https", "ftp" or "none"
\* (the string has no "scheme://" in front); kind tells a host name ("name") from
\* a dotted IPv4 literal ("v4") and an IPv6 literal ("v6", written in brackets in
\* the string); host is the text of the host
Raw(scheme, kind, host) == [scheme |-> scheme, kind |-> kind, host |-> host]

Protocol(scheme) ==
  CASE scheme = "http" -> "http:"
    [] scheme = "https" -> "https:"
    [] scheme = "ftp" -> "ftp:"
    [] OTHER -> "none"

\* new URL(rawTarget): throws on a string without a scheme; the hostname of the
\* URL is lower-cased, and an IPv6 literal keeps its brackets
NewURL(raw) ==
  IF raw.scheme = "none"
  THEN [parses |-> FALSE, protocol |-> "none", hostname |-> <<>>]
  ELSE [parses |-> TRUE, protocol |-> Protocol(raw.scheme),
        hostname |-> IF raw.kind = "v6"
                     THEN <<"[">> \o toLowerCase(raw.host) \o <<"]">>
                     ELSE toLowerCase(raw.host)]

\* domain.startsWith("http://") || domain.startsWith("https://") ? domain :
\* `https://${domain}`; "https://ftp://host" is a URL whose host is "ftp"
normalizedTarget(raw) ==
  IF raw.scheme \in {"http", "https"} THEN raw
  ELSE IF raw.scheme = "none" THEN Raw("https", raw.kind, raw.host)
  ELSE Raw("https", "name", <<"f", "t", "p">>)

(* ------------------------------------------------------------------ *)
(* Rate limiter                                                        *)
(* ------------------------------------------------------------------ *)
RECURSIVE inWindow(_, _)
\* prior.filter((ts) => now - ts <= RATE_LIMIT_WINDOW_MS)
inWindow(prior, t) ==
  IF prior = <<>> THEN <<>>
  ELSE IF t - Head(prior) <= RATE_LIMIT_WINDOW_MS
    THEN <<Head(prior)>> \o inWindow(Tail(prior), t)
    ELSE inWindow(Tail(prior), t)

\* a limiter that lets the window fill past its ceiling
AtCapAfterOneMore(n) == n > RATE_LIMIT_MAX_REQUESTS

AtCap(n) == n >= RATE_LIMIT_MAX_REQUESTS

\* a limiter that also records the attempts it rejects
checkRateLimitRecordsRejected(limiter, key, t) ==
  LET kept == inWindow(limiter[key], t)
  IN [admit |-> ~AtCap(Len(kept)),
      limiter |-> [limiter EXCEPT ![key] = Append(kept, t)]]

\* the verdict of checkRateLimit and the map it leaves: limiter is the
\* rateLimiter map, key the caller, t the value of Date.now()
checkRateLimit(limiter, key, t) ==
  LET kept == inWindow(limiter[key], t)
  IN IF AtCap(Len(kept))
     THEN [admit |-> FALSE, limiter |-> limiter]
     ELSE [admit |-> TRUE, limiter |-> [limiter EXCEPT ![key] = Append(kept, t)]]

(* ------------------------------------------------------------------ *)
(* Probe                                                               *)
(* ------------------------------------------------------------------ *)
SecurityHeaders == {"Strict-Transport-Security", "X-Content-Type-Options",
                    "Content-Security-Policy"}

\* a scoring that weighs a medium finding like a low one
ScoreMediumAsLow(counts) ==
  IF 100 - (counts.critical * 25 + counts.high * 15 + counts.medium * 3
            + counts.low * 3) >= 0
  THEN 100 - (counts.critical * 25 + counts.high * 15 + counts.medium * 3
              + counts.low * 3)
  ELSE 0

\* a header check that reports the headers that are present
MissingHeaderWhenPresent(headers, name, title) ==
  IF name \in headers THEN <<[title |-> title, severity |-> "medium"]>> ELSE <<>>

\* head: "fail" (the HEAD request threw or was aborted), or the scheme of the
\* final URL of its response; get: [ok, headers], ok FALSE when the GET threw
HeadOutcomes == {"fail", "https", "http"}
GetOutcomes == {[ok |-> FALSE, headers |-> {}]}
                 \cup {[ok |-> TRUE, headers |-> h] : h \in SUBSET SecurityHeaders}

\* a HEAD failure that is also reported as missing HTTPS
HeadFindingsBoth(head) ==
  IF head = "fail"
  THEN <<[title |-> "Target unreachable", severity |-> "high"],
         [title |-> "No HTTPS enforced", severity |-> "high"]>>
  ELSE IF head # "https" THEN <<[title |-> "No HTTPS enforced", severity |-> "high"]>>
  ELSE <<>>

\* a GET failure that is reported whatever was found before
GetFindingsRepeated(get, before) ==
  IF get.ok
  THEN (IF "Strict-Transport-Security" \in get.headers THEN <<>>
        ELSE <<[title |-> "Missing HSTS header", severity |-> "medium"]>>)
       \o (IF "X-Content-Type-Options" \in get.headers THEN <<>>
           ELSE <<[title |-> "Missing X-Content-Type-Options header",
                   severity |-> "medium"]>>)
       \o (IF "Content-Security-Policy" \in get.headers THEN <<>>
           ELSE <<[title |-> "Missing Content-Security-Policy header",
                   severity |-> "medium"]>>)
  ELSE <<[title |-> "Target unreachable", severity |-> "high"]>>

Finding(title, severity) == [title |-> title, severity |-> severity]

HeadFindings(head) ==
  IF head = "fail" THEN <<Finding("Target unreachable", "high")>>
  ELSE IF head # "https" THEN <<Finding("No HTTPS enforced", "high")>>
  ELSE <<>>

MissingHeader(headers, name, title) ==
  IF name \in headers THEN <<>> ELSE <<Finding(title, "medium")>>

GetFindings(get, before) ==
  IF get.ok
  THEN MissingHeader(get.headers, "Strict-Transport-Security", "Missing HSTS header")
       \o MissingHeader(get.headers, "X-Content-Type-Options",
                        "Missing X-Content-Type-Options header")
       \o MissingHeader(get.headers, "Content-Security-Policy",
                        "Missing Content-Security-Policy header")
  ELSE IF \E i \in 1..Len(before) : before[i].title = "Target unreachable"
    THEN <<>>
    ELSE <<Finding("Target unreachable", "high")>>

CountOf(findings, severity) ==
  Cardinality({i \in 1..Len(findings) : findings[i].severity = severity})

Max(a, b) == IF a >= b THEN a ELSE b

Score(counts) ==
  Max(0, 100 - (counts.critical * 25 + counts.high * 15 + counts.medium * 8
                + counts.low * 3))

Risk(score) == IF score >= 85 THEN "low" ELSE IF score >= 60 THEN "medium" ELSE "high"

\* the value runLightweightSecurityScan resolves to
runLightweightSecurityScan(head, get) ==
  LET first == HeadFindings(head)
      findings == first \o GetFindings(get, first)
      issueCounts == [critical |-> CountOf(findings, "critical"),
                      high |-> CountOf(findings, "high"),
                      medium |-> CountOf(findings, "medium"),
                      low |-> CountOf(findings, "low")]
  IN [summary |-> [score |-> Score(issueCounts), risk |-> Risk(Score(issueCounts)),
                   issue_counts |-> issueCounts],
      findings |-> findings]

(* ------------------------------------------------------------------ *)
(* State                                                               *)
(* ------------------------------------------------------------------ *)
VARIABLES
  scans,        \* the scans table: id -> row (status "none": no such row)
  results,      \* the scan_results table: scan id -> row
  tasks,        \* the processScan calls in progress: a bag of their locals
  rateLimiter,  \* the rateLimiter map: caller -> kept timestamps
  admitted,     \* history: caller -> every timestamp checkRateLimit admitted
  now,          \* the clock behind Date.now(), new Date() and SQL now()
  allowlist,    \* SCAN_TARGET_ALLOWLIST, parsed
  faults,       \* history: the store operations that failed so far
  last          \* what the last step answered or wrote

vars == <<scans, results, tasks, rateLimiter, admitted, now, allowlist, faults, last>>

ScanIds == 1..Max(MaxScans, MAX_CONCURRENT_SCANS + 1)

NoCounts == [critical |-> 0, high |-> 0, medium |-> 0, low |-> 0]

NoRow == [status |-> "none", created_at |-> Null, started_at |-> Null,
          completed_at |-> Null, score |-> Null, counts |-> NoCounts,
          scan_error |-> "null", target_url |-> "null"]

NoSummary == [score |-> Null, risk |-> "unknown", issue_counts |-> NoCounts]

NoResult == [present |-> FALSE, summary |-> NoSummary, findings |-> <<>>]

NoProbe == [summary |-> NoSummary, findings |-> <<>>]

Exists(id) == id \in ScanIds /\ scans[id].status # "none"

RowOf(id) == IF id \in ScanIds THEN scans[id] ELSE NoRow

\* gen_random_uuid(): the model hands out the ids in order
NextId == 1 + Cardinality({id \in ScanIds : scans[id].status # "none"})

StoreOutcomes == {"ok", "error", "throw"}

\* a store operation with outcome out, within the budget of failures
Store(out) ==
  /\ out # "ok" => faults < MaxFaults
  /\ faults' = IF out = "ok" THEN faults ELSE faults + 1

Ev(op, scan, code, error, status, summary, findings, out, cnt) ==
  [op |-> op, scan |-> scan, code |-> code, error |-> error, status |-> status,
   summary |-> summary, findings |-> findings, out |-> out, cnt |-> cnt,
   who |-> "none", req |-> <<>>]

Answer(op, scan, code, error) ==
  Ev(op, scan, code, error, "none", NoSummary, <<>>, "none", 0)

Wrote(op, scan, out) == Ev(op, scan, 0, "none", "none", NoSummary, <<>>, out, 0)

\* a step of processScan that answers nobody
Stepped(op) == Wrote(op, UnknownId, "none")

\* a handler that awaits processScan up to its last write before it answers
NewTaskAwaited(id, via) ==
  [scan |-> id, pc |-> "complete", cnt |-> 0, res |-> NoProbe, via |-> via]

\* processScan(scanId, target), called and not yet past its first await
NewTask(id, via) == [scan |-> id, pc |-> "count", cnt |-> 0, res |-> NoProbe, via |-> via]

StartTask(id, via) == tasks (+) SetToBag({NewTask(id, via)})

\* the call t moved on to t2; the call t returned or rejected
Moved(t, t2) == (tasks (-) SetToBag({t})) (+) SetToBag({t2})
Ended(t) == tasks (-) SetToBag({t})

Running(id) == \E t \in BagToSet(tasks) : t.scan = id

(* ------------------------------------------------------------------ *)
(* POST /api/v1/scans                                                  *)
(* ------------------------------------------------------------------ *)
\* a handler that starts the background work although the insert was refused
CreateDecisionStartsOnError(admit, body, v, ins) ==
  IF ~admit THEN [code |-> 429, error |-> "Rate limit exceeded", started |-> FALSE]
  ELSE IF ~body.hasTarget THEN [code |-> 400, error |-> "Missing target", started |-> FALSE]
  ELSE IF v # ValidTarget THEN [code |-> 400, error |-> v, started |-> FALSE]
  ELSE IF ins = "error"
    THEN [code |-> 500, error |-> "Server error creating scan", started |-> TRUE]
  ELSE IF ins = "throw" THEN [code |-> 500, error |-> "thrown", started |-> FALSE]
  ELSE [code |-> 201, error |-> "none", started |-> TRUE]

\* what handleCreateScan answers and whether it goes on to call processScan:
\* admit is checkRateLimit's verdict, v the validator's result, ins the outcome
\* of the insert
CreateDecision(admit, body, v, ins) ==
  IF ~admit THEN [code |-> 429, error |-> "Rate limit exceeded", started |-> FALSE]
  ELSE IF ~body.hasTarget THEN [code |-> 400, error |-> "Missing target", started |-> FALSE]
  ELSE IF v # ValidTarget THEN [code |-> 400, error |-> v, started |-> FALSE]
  ELSE IF ins = "error"
    THEN [code |-> 500, error |-> "Server error creating scan", started |-> FALSE]
  ELSE IF ins = "throw" THEN [code |-> 500, error |-> "thrown", started |-> FALSE]
  ELSE [code |-> 201, error |-> "none", started |-> TRUE]

\* whether the handler gets as far as the insert
ReachesInsert(admit, body, v) == admit /\ body.hasTarget /\ v = ValidTarget

\* the inserted row: status and created_at from the handler, started_at from the
\* column's DEFAULT now()
QueuedRow(t) == [NoRow EXCEPT !.status = "queued", !.created_at = t,
                              !.started_at = t, !.target_url = "set"]

\* ins is the outcome of the insert when the handler gets to it
HandleCreateScan(caller, body, dns, ins) ==
  LET rl == checkRateLimit(rateLimiter, caller, now)
      v == validateTargetUrl(body.target, allowlist, dns)
      d == CreateDecision(rl.admit, body, v, ins)
      inserts == ReachesInsert(rl.admit, body, v)
      id == IF inserts /\ ins = "ok" THEN NextId ELSE UnknownId
  IN /\ rateLimiter' = rl.limiter
     /\ admitted' = IF rl.admit THEN [admitted EXCEPT ![caller] = Append(@, now)]
                    ELSE admitted
     /\ IF inserts THEN Store(ins) ELSE ins = "ok" /\ UNCHANGED faults
     /\ inserts => NextId \in ScanIds
     /\ scans' = IF inserts /\ ins = "ok" THEN [scans EXCEPT ![NextId] = QueuedRow(now)]
                 ELSE scans
     /\ tasks' = IF d.started THEN StartTask(id, "create") ELSE tasks
     /\ last' = [Ev("create", id, d.code, d.error, IF d.started THEN "queued" ELSE "none",
                    NoSummary, <<>>, ins, 0) EXCEPT !.who = caller, !.req = <<body, dns>>]
     /\ UNCHANGED <<results, now, allowlist>>

(* ------------------------------------------------------------------ *)
(* The dashboard's insert and the legacy trigger                       *)
(* ------------------------------------------------------------------ *)
\* status from the dashboard, created_at and started_at from the column defaults
PendingRow(t) == [NoRow EXCEPT !.status = "pending", !.created_at = t, !.started_at = t]

\* useCreateScan, step 1: the dashboard inserts its own row
DashboardInsert(ins) ==
  /\ NextId \in ScanIds
  /\ Store(ins)
  /\ scans' = IF ins = "ok" THEN [scans EXCEPT ![NextId] = PendingRow(now)] ELSE scans
  /\ last' = Wrote("dashboardInsert", NextId, ins)
  /\ UNCHANGED <<results, tasks, rateLimiter, admitted, now, allowlist>>

LegacyDecision(body, v) ==
  IF ~body.hasScanId \/ ~body.hasDomain
  THEN [code |-> 400, error |-> "Invalid request payload", started |-> FALSE]
  ELSE IF v # ValidTarget THEN [code |-> 400, error |-> v, started |-> FALSE]
  ELSE [code |-> 202, error |-> "none", started |-> TRUE]

\* body.target: new URL of the domain, "https://" put in front when it starts
\* with neither http:// nor https://
HandleLegacyInvoke(body, dns) ==
  LET d == LegacyDecision(body, validateTargetUrl(body.target, allowlist, dns))
  IN /\ tasks' = IF d.started THEN StartTask(body.scanId, "legacy") ELSE tasks
     /\ last' = [Ev("legacy", body.scanId, d.code, d.error,
                    IF d.started THEN "queued" ELSE "none", NoSummary, <<>>, "none", 0)
                   EXCEPT !.req = <<body, dns>>]
     /\ UNCHANGED <<scans, results, rateLimiter, admitted, now, allowlist, faults>>

(* ------------------------------------------------------------------ *)
(* processScan, one action per await                                   *)
(* ------------------------------------------------------------------ *)
Min(a, b) == IF a <= b THEN a ELSE b

\* select id from scans where status in (running, queued) limit 6: the rows read
ActiveRows == Min(Cardinality({id \in ScanIds : scans[id].status \in {"running", "queued"}}),
                  MAX_CONCURRENT_SCANS + 1)

\* a check that already refuses at the ceiling
OverCapacityAtCeiling(cnt) == cnt >= MAX_CONCURRENT_SCANS

\* (concurrentScans?.length ?? 0) > MAX_CONCURRENT_SCANS
OverCapacity(cnt) == cnt > MAX_CONCURRENT_SCANS

\* an update ... .eq("id", id) that the store applied, refused or failed
UpdateRow(id, out, row) ==
  IF out = "ok" /\ Exists(id) THEN [scans EXCEPT ![id] = row] ELSE scans

CapacityError == "Max concurrent scans reached"

CapacityFailedRow(row, t) ==
  [row EXCEPT !.status = "failed", !.completed_at = t, !.scan_error = CapacityError]

RunningRow(row, t) == [row EXCEPT !.status = "running", !.started_at = t]

CompletedRow(row, t, summary) ==
  [row EXCEPT !.status = "completed", !.completed_at = t, !.score = summary.score,
              !.counts = summary.issue_counts, !.scan_error = "null"]

ThrownError == "thrown"

FailedRow(row, t) ==
  [row EXCEPT !.status = "failed", !.completed_at = t, !.scan_error = ThrownError]

\* the select of the running and queued rows; a throw rejects processScan
TaskCount(t, out) ==
  /\ t.pc = "count"
  /\ Store(out)
  /\ tasks' = IF out = "throw" THEN Ended(t)
              ELSE Moved(t, [t EXCEPT !.pc = "decide",
                                      !.cnt = IF out = "ok" THEN ActiveRows ELSE 0])
  /\ last' = Stepped("count")
  /\ UNCHANGED <<scans, results, rateLimiter, admitted, now, allowlist>>

\* over capacity: the update to failed, and processScan returns
TaskReject(t, out) ==
  /\ t.pc = "decide"
  /\ OverCapacity(t.cnt)
  /\ Store(out)
  /\ scans' = UpdateRow(t.scan, out, CapacityFailedRow(RowOf(t.scan), now))
  /\ tasks' = Ended(t)
  /\ last' = Ev("reject", t.scan, 0, "none", "none", NoSummary, <<>>, out, t.cnt)
  /\ UNCHANGED <<results, rateLimiter, admitted, now, allowlist>>

\* otherwise the update to running; it is outside the try block, so a throw
\* rejects processScan
TaskAdmit(t, out) ==
  /\ t.pc = "decide"
  /\ ~OverCapacity(t.cnt)
  /\ Store(out)
  /\ scans' = UpdateRow(t.scan, out, RunningRow(RowOf(t.scan), now))
  /\ tasks' = IF out = "throw" THEN Ended(t)
              ELSE Moved(t, [t EXCEPT !.pc = "probe", !.cnt = 0])
  /\ last' = Ev("admit", t.scan, 0, "none", "none", NoSummary, <<>>, out, t.cnt)
  /\ UNCHANGED <<results, rateLimiter, admitted, now, allowlist>>

\* a probe that throws when neither request reaches the target
TaskProbeThrows(t, head, get) ==
  /\ t.pc = "probe"
  /\ tasks' = IF head = "fail" /\ ~get.ok
              THEN Moved(t, [t EXCEPT !.pc = "catch", !.res = NoProbe])
              ELSE Moved(t, [t EXCEPT !.pc = "upsert",
                                      !.res = runLightweightSecurityScan(head, get)])
  /\ last' = [Stepped("probe") EXCEPT !.req = <<head, get>>]
  /\ UNCHANGED <<scans, results, rateLimiter, admitted, now, allowlist, faults>>

\* runLightweightSecurityScan: the HEAD and the GET request and the summary
TaskProbe(t, head, get) ==
  /\ t.pc = "probe"
  /\ tasks' = Moved(t, [t EXCEPT !.pc = "upsert",
                                 !.res = runLightweightSecurityScan(head, get)])
  /\ last' = [Stepped("probe") EXCEPT !.req = <<head, get>>]
  /\ UNCHANGED <<scans, results, rateLimiter, admitted, now, allowlist, faults>>

\* the upsert into scan_results (scan_id references scans.id)
TaskUpsert(t, out) ==
  /\ t.pc = "upsert"
  /\ Store(out)
  /\ results' = IF out = "ok" /\ Exists(t.scan)
                THEN [results EXCEPT ![t.scan] =
                        [present |-> TRUE, summary |-> t.res.summary,
                         findings |-> t.res.findings]]
                ELSE results
  /\ tasks' = IF out = "throw" THEN Moved(t, [t EXCEPT !.pc = "catch", !.res = NoProbe])
              ELSE Moved(t, [t EXCEPT !.pc = "complete"])
  /\ last' = Stepped("upsert")
  /\ UNCHANGED <<scans, rateLimiter, admitted, now, allowlist>>

\* the update to completed
TaskComplete(t, out) ==
  /\ t.pc = "complete"
  /\ Store(out)
  /\ scans' = UpdateRow(t.scan, out, CompletedRow(RowOf(t.scan), now, t.res.summary))
  /\ tasks' = IF out = "throw" THEN Moved(t, [t EXCEPT !.pc = "catch", !.res = NoProbe])
              ELSE Ended(t)
  /\ last' = Stepped("complete")
  /\ UNCHANGED <<results, rateLimiter, admitted, now, allowlist>>

\* the catch block: the update to failed with the thrown message
TaskCatch(t, out) ==
  /\ t.pc = "catch"
  /\ Store(out)
  /\ scans' = UpdateRow(t.scan, out, FailedRow(RowOf(t.scan), now))
  /\ tasks' = Ended(t)
  /\ last' = Stepped("catch")
  /\ UNCHANGED <<results, rateLimiter, admitted, now, allowlist>>

(* ------------------------------------------------------------------ *)
(* GET /api/v1/scans/{id} and GET /api/v1/scans/{id}/results           *)
(* ------------------------------------------------------------------ *)
\* out: the outcome of the select (a throw is answered by serve's catch)
GetScanAnswer(id, out) ==
  IF out = "error" THEN Answer("getScan", id, 500, "Server error fetching scan")
  ELSE IF out = "throw" THEN Answer("getScan", id, 500, "thrown")
  ELSE IF ~Exists(id) THEN Answer("getScan", id, 404, "Scan not found")
  ELSE Ev("getScan", id, 200, scans[id].scan_error, scans[id].status, NoSummary, <<>>,
          out, 0)

HandleGetScan(id, out) ==
  /\ last' = GetScanAnswer(id, out)
  /\ UNCHANGED <<scans, results, tasks, rateLimiter, admitted, now, allowlist, faults>>

\* a handler that hands out results whatever the status
GetResultsAnswerAnyStatus(id, out1, out2) ==
  IF out1 = "error" THEN Answer("getResults", id, 500, "Server error fetching scan")
  ELSE IF out1 = "throw" THEN Answer("getResults", id, 500, "thrown")
  ELSE IF ~Exists(id) THEN Answer("getResults", id, 404, "Scan not found")
  ELSE IF out2 = "error"
    THEN Answer("getResults", id, 500, "Server error fetching scan results")
  ELSE IF out2 = "throw" THEN Answer("getResults", id, 500, "thrown")
  ELSE Ev("getResults", id, 200, "none", "none", results[id].summary,
          results[id].findings, out2, 0)

\* out1, out2: the outcomes of the select on scans and of the select on scan_results
GetResultsAnswer(id, out1, out2) ==
  IF out1 = "error" THEN Answer("getResults", id, 500, "Server error fetching scan")
  ELSE IF out1 = "throw" THEN Answer("getResults", id, 500, "thrown")
  ELSE IF ~Exists(id) THEN Answer("getResults", id, 404, "Scan not found")
  ELSE IF scans[id].status # "completed"
    THEN Ev("getResults", id, 409, "Scan is not completed yet", scans[id].status,
            NoSummary, <<>>, out1, 0)
  ELSE IF out2 = "error"
    THEN Answer("getResults", id, 500, "Server error fetching scan results")
  ELSE IF out2 = "throw" THEN Answer("getResults", id, 500, "thrown")
  ELSE Ev("getResults", id, 200, "none", "none", results[id].summary,
          results[id].findings, out2, 0)

HandleGetResults(id, out1, out2) ==
  /\ last' = GetResultsAnswer(id, out1, out2)
  /\ UNCHANGED <<scans, results, tasks, rateLimiter, admitted, now, allowlist, faults>>

(* ------------------------------------------------------------------ *)
(* Time                                                                *)
(* ------------------------------------------------------------------ *)
\* the admissions that an admission at time t or later can share a window with
Recent(seq, t) == SelectSeq(seq, LAMBDA ts : t - ts <= RATE_LIMIT_WINDOW_MS)

Tick(ticks) ==
  /\ now < ticks * TickMs
  /\ now' = now + TickMs
  /\ admitted' = [c \in Callers |-> Recent(admitted[c], now + TickMs)]
  /\ last' = Wrote("tick", UnknownId, "none")
  /\ UNCHANGED <<scans, results, tasks, rateLimiter, allowlist, faults>>

(* ------------------------------------------------------------------ *)
(* Requests and environment answers the specifications draw from       *)
(* ------------------------------------------------------------------ *)
\* https://ex.co
GoodTarget == [parses |-> TRUE, protocol |-> "https:",
               hostname |-> <<"e", "x", ".", "c", "o">>]
\* http://127.0.0.1
LoopbackTarget == [parses |-> TRUE, protocol |-> "http:",
                   hostname |-> <<"1", "2", "7", ".", "0", ".", "0", ".", "1">>]

PublicDns == [a |-> [ok |-> TRUE, ips |-> {<<"9", ".", "9", ".", "9", ".", "9">>}],
              aaaa |-> [ok |-> FALSE, ips |-> {}]]

CreateBodies == {[hasTarget |-> TRUE, target |-> GoodTarget],
                 [hasTarget |-> TRUE, target |-> LoopbackTarget],
                 [hasTarget |-> FALSE, target |-> GoodTarget]}

ExistingIds == {id \in ScanIds : Exists(id)}

LegacyBodies ==
  {[hasScanId |-> TRUE, hasDomain |-> TRUE, scanId |-> id, target |-> GoodTarget] :
     id \in ExistingIds}
  \cup {[hasScanId |-> TRUE, hasDomain |-> TRUE, scanId |-> UnknownId,
         target |-> LoopbackTarget],
        [hasScanId |-> FALSE, hasDomain |-> TRUE, scanId |-> UnknownId,
         target |-> GoodTarget]}

\* a reachable https site without the three headers; an unreachable target
LifeProbes == {<<"https", [ok |-> TRUE, headers |-> {}]>>,
               <<"fail", [ok |-> FALSE, headers |-> {}]>>}

(* ------------------------------------------------------------------ *)
(* The lifecycle specification: requests, processScan and store faults *)
(* ------------------------------------------------------------------ *)
\* a site that answers over https without any of the headers
SiteProbe == <<"https", [ok |-> TRUE, headers |-> {}]>>

Init ==
  /\ scans = [id \in ScanIds |-> NoRow]
  /\ results = [id \in ScanIds |-> NoResult]
  /\ tasks = EmptyBag
  /\ rateLimiter = [c \in Callers |-> <<>>]
  /\ admitted = [c \in Callers |-> <<>>]
  /\ now = 0
  /\ allowlist = {}
  /\ faults = 0
  /\ last = Wrote("init", UnknownId, "none")

CreateStep ==
  \E body \in CreateBodies, ins \in StoreOutcomes :
    /\ NextId <= MaxScans
    /\ BagCardinality(tasks) < MaxTasks
    /\ Len(admitted["a"]) < MaxAdmits
    /\ HandleCreateScan("a", body, PublicDns, ins)

DashboardStep == \E ins \in {"ok", "error"} : NextId <= MaxScans /\ DashboardInsert(ins)

LegacyStep ==
  \E body \in LegacyBodies :
    BagCardinality(tasks) < MaxTasks /\ HandleLegacyInvoke(body, PublicDns)

TaskStep ==
  \E t \in BagToSet(tasks) :
    \/ \E out \in StoreOutcomes : TaskCount(t, out)
    \/ \E out \in StoreOutcomes : TaskAdmit(t, out)
    \/ \E p \in LifeProbes : TaskProbe(t, p[1], p[2])
    \/ \E out \in StoreOutcomes : TaskUpsert(t, out)
    \/ \E out \in StoreOutcomes : TaskComplete(t, out)
    \/ \E out \in StoreOutcomes : TaskCatch(t, out)

GetStep ==
  \E id \in ExistingIds \cup {UnknownId} :
    \/ \E out \in StoreOutcomes : HandleGetScan(id, out)
    \/ \E out1, out2 \in StoreOutcomes : HandleGetResults(id, out1, out2)

Next == CreateStep \/ DashboardStep \/ LegacyStep \/ TaskStep \/ GetStep

Spec == Init /\ [][Next]_vars

(* ------------------------------------------------------------------ *)
(* The timing specification: the lifecycle on a store that applies     *)
(* every write, with the clock running                                 *)
(* ------------------------------------------------------------------ *)
TimeCreateStep ==
  \E body \in CreateBodies :
    /\ NextId <= MaxScans
    /\ BagCardinality(tasks) < MaxTasks
    /\ Len(admitted["a"]) < MaxAdmits
    /\ HandleCreateScan("a", body, PublicDns, "ok")

TimeTaskStep ==
  \E t \in BagToSet(tasks) :
    \/ TaskCount(t, "ok")
    \/ TaskAdmit(t, "ok")
    \/ \E p \in LifeProbes : TaskProbe(t, p[1], p[2])
    \/ TaskUpsert(t, "ok")
    \/ TaskComplete(t, "ok")

TimeNext == TimeCreateStep \/ LegacyStep \/ TimeTaskStep \/ Tick(MaxTicks)

SpecTime == Init /\ [][TimeNext]_vars

(* ------------------------------------------------------------------ *)
(* The create specification: POST /api/v1/scans and the processScan    *)
(* calls it starts                                                     *)
(* ------------------------------------------------------------------ *)
PostTaskStep ==
  \E t \in BagToSet(tasks) :
    \/ TaskCount(t, "ok")
    \/ TaskAdmit(t, "ok")
    \/ TaskProbe(t, SiteProbe[1], SiteProbe[2])
    \/ TaskUpsert(t, "ok")
    \/ TaskComplete(t, "ok")

\* caller "b" has just been admitted twenty times
PostInit ==
  /\ scans = [id \in ScanIds |-> NoRow]
  /\ results = [id \in ScanIds |-> NoResult]
  /\ tasks = EmptyBag
  /\ rateLimiter = [c \in Callers |->
                      IF c = "b" THEN [i \in 1..RATE_LIMIT_MAX_REQUESTS |-> 0] ELSE <<>>]
  /\ admitted = [c \in Callers |->
                   IF c = "b" THEN [i \in 1..RATE_LIMIT_MAX_REQUESTS |-> 0] ELSE <<>>]
  /\ now = 0
  /\ allowlist = {}
  /\ faults = 0
  /\ last = [Answer("create", UnknownId, 400, "Missing target") EXCEPT !.who = "b"]

PostCreateStep ==
  \E caller \in Callers, body \in CreateBodies, ins \in StoreOutcomes :
    /\ NextId <= MaxScans
    /\ BagCardinality(tasks) < MaxTasks
    /\ Len(admitted["a"]) < MaxAdmits
    /\ HandleCreateScan(caller, body, PublicDns, ins)

PostNext == PostCreateStep \/ LegacyStep \/ PostTaskStep

SpecPost == PostInit /\ [][PostNext]_vars

(* ------------------------------------------------------------------ *)
(* The read specification: the GET handlers beside scans that the      *)
(* dashboard inserts and POST /api/v1/scans creates and runs           *)
(* ------------------------------------------------------------------ *)
ReadCreateStep ==
  /\ NextId <= MaxScans
  /\ HandleCreateScan("a", [hasTarget |-> TRUE, target |-> GoodTarget], PublicDns, "ok")

ReadDashboardStep == NextId <= MaxScans /\ DashboardInsert("ok")

ReadNext == ReadCreateStep \/ ReadDashboardStep \/ TaskStep \/ GetStep

SpecRead == Init /\ [][ReadNext]_vars

(* ------------------------------------------------------------------ *)
(* The capacity specification: five scans are running, their probes    *)
(* under way, when further scans arrive                                *)
(* ------------------------------------------------------------------ *)
FirstFive == 1..MAX_CONCURRENT_SCANS

SiteResult == runLightweightSecurityScan(SiteProbe[1], SiteProbe[2])

CapInit ==
  /\ scans = [id \in ScanIds |->
                IF id \in FirstFive THEN RunningRow(QueuedRow(0), 0) ELSE NoRow]
  /\ results = [id \in ScanIds |->
                  IF id \in FirstFive
                  THEN [present |-> TRUE, summary |-> SiteResult.summary,
                        findings |-> SiteResult.findings]
                  ELSE NoResult]
  /\ tasks = SetToBag({[NewTask(id, "create") EXCEPT !.pc = "complete", !.res = SiteResult] :
                          id \in FirstFive})
  /\ rateLimiter = [c \in Callers |-> IF c = "a" THEN [i \in FirstFive |-> 0] ELSE <<>>]
  /\ admitted = [c \in Callers |-> IF c = "a" THEN [i \in FirstFive |-> 0] ELSE <<>>]
  /\ now = 0
  /\ allowlist = {}
  /\ faults = 0
  /\ last = Stepped("upsert")

LaterIds == {id \in ExistingIds : id \notin FirstFive}

LaterTasks ==
  BagCardinality([t \in {u \in BagToSet(tasks) : u.scan \notin FirstFive} |->
                    CopiesIn(t, tasks)])

CapRoom == LaterTasks < CapExtraTasks

CapCreateStep ==
  /\ CapRoom
  /\ HandleCreateScan("b", [hasTarget |-> TRUE, target |-> GoodTarget], PublicDns, "ok")

CapDashboardStep == DashboardInsert("ok")

CapLegacyStep ==
  \E id \in LaterIds :
    /\ CapRoom
    /\ HandleLegacyInvoke([hasScanId |-> TRUE, hasDomain |-> TRUE, scanId |-> id,
                           target |-> GoodTarget], PublicDns)

CapTaskStep ==
  \E t \in BagToSet(tasks) :
    \/ TaskCount(t, "ok")
    \/ \E out \in StoreOutcomes : TaskReject(t, out)
    \/ \E out \in StoreOutcomes : TaskAdmit(t, out)
    \/ TaskProbe(t, SiteProbe[1], SiteProbe[2])
    \/ TaskUpsert(t, "ok")
    \/ TaskComplete(t, "ok")

CapNext == CapCreateStep \/ CapDashboardStep \/ CapLegacyStep \/ CapTaskStep

SpecCap == CapInit /\ [][CapNext]_vars

(* ------------------------------------------------------------------ *)
(* The queue specification: six scans were posted one after another,   *)
(* the first five have read their counts, the sixth has not            *)
(* ------------------------------------------------------------------ *)
AllSix == 1..(MAX_CONCURRENT_SCANS + 1)

QueueInit ==
  /\ scans = [id \in ScanIds |-> IF id \in AllSix THEN QueuedRow(0) ELSE NoRow]
  /\ results = [id \in ScanIds |-> NoResult]
  /\ tasks = SetToBag({[NewTask(id, "create") EXCEPT !.pc = "decide", !.cnt = id] :
                          id \in FirstFive}
                      \cup {NewTask(MAX_CONCURRENT_SCANS + 1, "create")})
  /\ rateLimiter = [c \in Callers |-> IF c = "a" THEN [i \in AllSix |-> 0] ELSE <<>>]
  /\ admitted = [c \in Callers |-> IF c = "a" THEN [i \in AllSix |-> 0] ELSE <<>>]
  /\ now = 0
  /\ allowlist = {}
  /\ faults = 0
  /\ last = Ev("create", MAX_CONCURRENT_SCANS + 1, 201, "none", "queued", NoSummary,
               <<>>, "ok", 0)

QueueNext ==
  \E t \in BagToSet(tasks) :
    \/ TaskCount(t, "ok")
    \/ TaskReject(t, "ok")
    \/ TaskAdmit(t, "ok")
    \/ TaskProbe(t, SiteProbe[1], SiteProbe[2])
    \/ TaskUpsert(t, "ok")
    \/ TaskComplete(t, "ok")

SpecQueue == QueueInit /\ [][QueueNext]_vars

(* ------------------------------------------------------------------ *)
(* The AI security-scan handler, one action per store or gateway call, *)
(* and its specification: the dashboard inserts a row and invokes it   *)
(* ------------------------------------------------------------------ *)
\* what the call to the AI gateway comes to: fetch threw, a status that is not
\* ok, no content in the answer, content the parse fallback replaces, content
\* that parses without a summary, content that parses in full
GatewayErrors == {"429", "402", "500"}
InferenceOutcomes ==
  {"threw", "empty", "unparseable", "incomplete", "parsed"} \cup GatewayErrors

\* response.status
StatusOf(outcome) ==
  CASE outcome = "429" -> 429 [] outcome = "402" -> 402 [] OTHER -> 500

\* the scanResult of the parse fallback, and one the model returned
FallbackResult ==
  [score |-> 70, risk |-> "unknown",
   issue_counts |-> [critical |-> 0, high |-> 0, medium |-> 0, low |-> 1]]
ParsedResult ==
  [score |-> 90, risk |-> "unknown",
   issue_counts |-> [critical |-> 0, high |-> 1, medium |-> 0, low |-> 0]]

AiTask(id) == [scan |-> id, pc |-> "infer", cnt |-> 0, res |-> NoProbe, via |-> "ai"]

\* the handler up to its update to running; a throw reaches the outer catch
AiStart(id, out) ==
  /\ Store(out)
  /\ scans' = UpdateRow(id, out, [RowOf(id) EXCEPT !.status = "running"])
  /\ tasks' = IF out = "throw" THEN tasks ELSE tasks (+) SetToBag({AiTask(id)})
  /\ last' = IF out = "throw" THEN Answer("ai", id, 500, "thrown")
             ELSE Wrote("aiRunning", id, out)
  /\ UNCHANGED <<results, rateLimiter, admitted, now, allowlist>>

\* the fetch of the gateway and the reading of its answer
AiInfer(t, outcome) ==
  /\ t.pc = "infer"
  /\ tasks' = IF outcome \in GatewayErrors
              THEN Moved(t, [t EXCEPT !.pc = "aiFail", !.cnt = StatusOf(outcome)])
              ELSE IF outcome \in {"unparseable", "parsed"}
              THEN Moved(t, [t EXCEPT !.pc = "aiComplete",
                                      !.res = [summary |-> IF outcome = "parsed"
                                                           THEN ParsedResult
                                                           ELSE FallbackResult,
                                               findings |-> <<>>]])
              ELSE Ended(t)
  /\ last' = IF outcome = "threw" THEN Answer("ai", t.scan, 500, "thrown")
             ELSE IF outcome = "empty" THEN Answer("ai", t.scan, 500, "No response from AI")
             ELSE IF outcome = "incomplete" THEN Answer("ai", t.scan, 500, "thrown")
             ELSE Stepped("aiInfer")
  /\ UNCHANGED <<scans, results, rateLimiter, admitted, now, allowlist, faults>>

\* the update to failed after a gateway error, then the answer
AiFail(t, out) ==
  /\ t.pc = "aiFail"
  /\ Store(out)
  /\ scans' = UpdateRow(t.scan, out, [RowOf(t.scan) EXCEPT !.status = "failed"])
  /\ tasks' = Ended(t)
  /\ last' = IF out = "throw" THEN Answer("ai", t.scan, 500, "thrown")
             ELSE IF t.cnt = 429
               THEN Answer("ai", t.scan, 429, "Rate limit exceeded. Please try again later.")
             ELSE IF t.cnt = 402
               THEN Answer("ai", t.scan, 402, "AI service credits exhausted.")
             ELSE Answer("ai", t.scan, 500, "AI gateway error")
  /\ UNCHANGED <<results, rateLimiter, admitted, now, allowlist>>

\* the update to completed, whose error is only logged, then the answer
AiComplete(t, out) ==
  /\ t.pc = "aiComplete"
  /\ Store(out)
  /\ scans' = UpdateRow(t.scan, out,
                        [RowOf(t.scan) EXCEPT !.status = "completed", !.completed_at = now,
                                              !.score = t.res.summary.score,
                                              !.counts = t.res.summary.issue_counts])
  /\ tasks' = Ended(t)
  /\ last' = IF out = "throw" THEN Answer("ai", t.scan, 500, "thrown")
             ELSE Ev("ai", t.scan, 200, "none", "none", t.res.summary, <<>>, out, 0)
  /\ UNCHANGED <<results, rateLimiter, admitted, now, allowlist>>

\* useCreateScan, step 2: the dashboard invokes the handler for the row it inserted
AiStartStep ==
  \E id \in ExistingIds, out \in StoreOutcomes :
    /\ scans[id].status = "pending"
    /\ ~Running(id)
    /\ AiStart(id, out)

AiTaskStep ==
  \E t \in BagToSet(tasks) :
    \/ \E outcome \in InferenceOutcomes : AiInfer(t, outcome)
    \/ \E out \in StoreOutcomes : AiFail(t, out)
    \/ \E out \in StoreOutcomes : AiComplete(t, out)

AiNext == DashboardStep \/ AiStartStep \/ AiTaskStep \/ Tick(MaxTicks)

SpecAi == Init /\ [][AiNext]_vars

(* ------------------------------------------------------------------ *)
(* The burst specification: six scans were posted together, every row  *)
(* is inserted and no processScan call has read its count yet          *)
(* ------------------------------------------------------------------ *)
BurstInit ==
  /\ scans = [id \in ScanIds |-> IF id \in AllSix THEN QueuedRow(0) ELSE NoRow]
  /\ results = [id \in ScanIds |-> NoResult]
  /\ tasks = SetToBag({NewTask(id, "create") : id \in AllSix})
  /\ rateLimiter = [c \in Callers |-> IF c = "a" THEN [i \in AllSix |-> 0] ELSE <<>>]
  /\ admitted = [c \in Callers |-> IF c = "a" THEN [i \in AllSix |-> 0] ELSE <<>>]
  /\ now = 0
  /\ allowlist = {}
  /\ faults = 0
  /\ last = Ev("create", MAX_CONCURRENT_SCANS + 1, 201, "none", "queued", NoSummary,
               <<>>, "ok", 0)

SpecBurst == BurstInit /\ [][QueueNext]_vars

(* ------------------------------------------------------------------ *)
(* The rate-limiter specification: requests without a target, so that  *)
(* nothing but checkRateLimit acts, and the clock                      *)
(* ------------------------------------------------------------------ *)
RateStep ==
  \E c \in Callers :
    /\ c # "a" => Len(admitted[c]) < RateAdmits
    /\ HandleCreateScan(c, [hasTarget |-> FALSE, target |-> GoodTarget], PublicDns, "ok")

RateNext == RateStep \/ Tick(RateTicks)

SpecRate == Init /\ [][RateNext]_vars

(* ------------------------------------------------------------------ *)
(* The validation specification: requests with targets, allow-lists    *)
(* and DNS answers drawn from the sets below                           *)
(* ------------------------------------------------------------------ *)
\* hosts, each with whether it is localhost, under .local or .localhost, or a
\* literal address in 10/8, 127/8, 169.254/16, 172.16/12, 192.168/16, 0.0.0.0,
\* ::1, fc00::/7 or fe80::/10
Hosts ==
  {
   [kind |-> "name", blocked |-> TRUE,
    text |-> <<"l", "o", "c", "a", "l", "h", "o", "s", "t">>],
   [kind |-> "name", blocked |-> TRUE,
    text |-> <<"L", "o", "c", "a", "l", "H", "o", "s", "t">>],
   [kind |-> "name", blocked |-> TRUE,
    text |-> <<"a", ".", "l", "o", "c", "a", "l">>],
   [kind |-> "name", blocked |-> TRUE,
    text |-> <<"a", ".", "l", "o", "c", "a", "l", "h", "o", "s", "t">>],
   [kind |-> "name", blocked |-> FALSE,
    text |-> <<"e", "x", ".", "c", "o">>],
   [kind |-> "name", blocked |-> FALSE,
    text |-> <<"A", ".", "E", "x", ".", "C", "o">>],
   [kind |-> "name", blocked |-> FALSE,
    text |-> <<"n", "o", "t", "e", "x", ".", "c", "o">>],
   [kind |-> "name", blocked |-> FALSE,
    text |-> <<"f", "c", ".", "c", "o">>],
   [kind |-> "name", blocked |-> FALSE,
    text |-> <<"F", "D", "a", ".", "i", "o">>],
   [kind |-> "v4", blocked |-> TRUE,
    text |-> <<"1", "0", ".", "0", ".", "0", ".", "1">>],
   [kind |-> "v4", blocked |-> TRUE,
    text |-> <<"1", "2", "7", ".", "0", ".", "0", ".", "1">>],
   [kind |-> "v4", blocked |-> TRUE,
    text |-> <<"1", "6", "9", ".", "2", "5", "4", ".", "1", ".", "1">>],
   [kind |-> "v4", blocked |-> TRUE,
    text |-> <<"1", "7", "2", ".", "1", "6", ".", "0", ".", "1">>],
   [kind |-> "v4", blocked |-> TRUE,
    text |-> <<"1", "7", "2", ".", "3", "1", ".", "9", ".", "9">>],
   [kind |-> "v4", blocked |-> TRUE,
    text |-> <<"1", "9", "2", ".", "1", "6", "8", ".", "1", ".", "1">>],
   [kind |-> "v4", blocked |-> TRUE,
    text |-> <<"0", ".", "0", ".", "0", ".", "0">>],
   [kind |-> "v4", blocked |-> FALSE,
    text |-> <<"9", ".", "9", ".", "9", ".", "9">>],
   [kind |-> "v4", blocked |-> FALSE,
    text |-> <<"1", "7", "2", ".", "3", "2", ".", "0", ".", "1">>],
   [kind |-> "v6", blocked |-> TRUE,
    text |-> <<":", ":", "1">>],
   [kind |-> "v6", blocked |-> TRUE,
    text |-> <<"f", "c", "0", "0", ":", ":", "1">>],
   [kind |-> "v6", blocked |-> TRUE,
    text |-> <<"f", "d", "0", "0", ":", ":", "1">>],
   [kind |-> "v6", blocked |-> TRUE,
    text |-> <<"f", "e", "8", "0", ":", ":", "1">>],
   [kind |-> "v6", blocked |-> FALSE,
    text |-> <<"2", "0", "0", "1", ":", ":", "1">>]
  }

Schemes == {"http", "https", "ftp", "none"}

RawTargets == {[raw |-> Raw(sch, h.kind, h.text), host |-> h] : sch \in Schemes, h \in Hosts}

\* SCAN_TARGET_ALLOWLIST: unset, or a comma-separated list of the entries
RawAllowlists ==
  {{},
   {<<"E", "x", ".", "C", "o">>},
   {<<"e", "x", ".", "c", "o">>, <<"1", "2", "7", ".", "0", ".", "0", ".", "1">>, <<"l", "o", "c", "a", "l", "h", "o", "s", "t">>, <<"[", ":", ":", "1", "]">>}}

\* .split(",").map((d) => d.trim().toLowerCase()).filter(Boolean), on entries
\* written without blanks
ParseAllowlist(entries) == {toLowerCase(e) : e \in {x \in entries : x # <<>>}}

PublicA == {<<"9", ".", "9", ".", "9", ".", "9">>}
PrivateA == {<<"9", ".", "9", ".", "9", ".", "9">>, <<"1", "9", "2", ".", "1", "6", "8", ".", "1", ".", "1">>}
PublicAAAA == {<<"2", "0", "0", "1", ":", ":", "1">>}
PrivateAAAA == {<<"2", "0", "0", "1", ":", ":", "1">>, <<":", ":", "1">>}

Lookups(sets) == {[ok |-> FALSE, ips |-> {}]} \cup {[ok |-> TRUE, ips |-> x] : x \in sets}

DnsAnswers ==
  {[a |-> x, aaaa |-> y] : x \in Lookups({PublicA, PrivateA}),
                           y \in Lookups({PublicAAAA, PrivateAAAA})}

ValidateInit ==
  /\ scans = [id \in ScanIds |-> NoRow]
  /\ results = [id \in ScanIds |-> NoResult]
  /\ tasks = EmptyBag
  /\ rateLimiter = [c \in Callers |-> <<>>]
  /\ admitted = [c \in Callers |-> <<>>]
  /\ now = 0
  /\ allowlist \in {ParseAllowlist(entries) : entries \in RawAllowlists}
  /\ faults = 0
  /\ last = Wrote("init", UnknownId, "none")

\* both lookups fail, as they do for a host that is an address literal
NoDns == [a |-> [ok |-> FALSE, ips |-> {}], aaaa |-> [ok |-> FALSE, ips |-> {}]]

\* https://ex.co
GoodRaw == [raw |-> Raw("https", "name", <<"e", "x", ".", "c", "o">>),
            host |-> [kind |-> "name", blocked |-> FALSE,
                      text |-> <<"e", "x", ".", "c", "o">>]]

\* both lookups answer with public addresses
PublicAnswers == [a |-> [ok |-> TRUE, ips |-> PublicA],
                  aaaa |-> [ok |-> TRUE, ips |-> PublicAAAA]]

\* the https targets whose host is a DNS name outside the blocked ones
PublicNames ==
  {t \in RawTargets : t.raw.scheme = "https" /\ t.host.kind = "name" /\ ~t.host.blocked}

\* every target with lookups that fail, one good target with every DNS answer,
\* and the public names with public answers
Requests ==
  {<<t, NoDns>> : t \in RawTargets}
  \cup {<<GoodRaw, dns>> : dns \in DnsAnswers}
  \cup {<<t, PublicAnswers>> : t \in PublicNames}

ValidateCreateStep ==
  \E r \in Requests :
    /\ tasks = EmptyBag
    /\ Len(admitted["a"]) < MaxAdmits
    /\ HandleCreateScan("a", [hasTarget |-> TRUE, target |-> NewURL(r[1].raw),
                              from |-> r[1]], r[2], "ok")

ValidateLegacyStep ==
  \E r \in Requests, id \in ExistingIds \cup {UnknownId} :
    /\ tasks = EmptyBag
    /\ HandleLegacyInvoke([hasScanId |-> TRUE, hasDomain |-> TRUE, scanId |-> id,
                           target |-> NewURL(normalizedTarget(r[1].raw)),
                           from |-> r[1]], r[2])

ValidateNext == ValidateCreateStep \/ ValidateLegacyStep

SpecValidate == ValidateInit /\ [][ValidateNext]_vars

(* ------------------------------------------------------------------ *)
(* The probe specification: one scan at a time, processed against      *)
(* every outcome of the HEAD and the GET request                       *)
(* ------------------------------------------------------------------ *)
ProbeCreateStep ==
  \E ins \in StoreOutcomes :
    /\ tasks = EmptyBag
    /\ NextId <= MaxScans
    /\ HandleCreateScan("a", [hasTarget |-> TRUE, target |-> GoodTarget], PublicDns, ins)

ProbeTaskStep ==
  \E t \in BagToSet(tasks) :
    \/ \E out \in StoreOutcomes : TaskCount(t, out)
    \/ \E out \in StoreOutcomes : TaskAdmit(t, out)
    \/ \E head \in HeadOutcomes, get \in GetOutcomes : TaskProbe(t, head, get)
    \/ \E out \in StoreOutcomes : TaskUpsert(t, out)
    \/ \E out \in StoreOutcomes : TaskComplete(t, out)
    \/ \E out \in StoreOutcomes : TaskCatch(t, out)

ProbeNext == ProbeCreateStep \/ ProbeTaskStep

SpecProbe == Init /\ [][ProbeNext]_vars

(* ------------------------------------------------------------------ *)
(* Claims checked under Spec                                           *)
(* ------------------------------------------------------------------ *)
Terminal == {"completed", "failed", "canceled"}

\* C1: once a scan's stored status is completed, failed or canceled, no operation
\* of the scan service changes that status again.
C1_TerminalStatusIsFinal ==
  [][\A id \in ScanIds :
       scans[id].status \in Terminal => scans'[id].status = scans[id].status]_vars

\* C5: every scan row created by POST /api/v1/scans reaches completed or failed;
\* stated on finite runs: once no processScan call is left for the row, the row
\* is completed or failed.
C5_CreatedScanEndsTerminal ==
  \A id \in ScanIds :
    (scans[id].target_url = "set" /\ ~Running(id))
      => scans[id].status \in {"completed", "failed"}

\* the processScan calls a step starts
NewTasks ==
  {t \in BagToSet(tasks') : t.pc = "count" /\ CopiesIn(t, tasks') > CopiesIn(t, tasks)}

\* C7: a POST /api/v1/scans that does not answer 201 creates no scan row and
\* starts no processScan call (400 comes before any insert, 500 before any
\* background work), and the create path starts processScan only for the queued
\* row it has just inserted.
C7_NoRowNoTaskUnless201 ==
  [][/\ (last'.op = "create" /\ last'.code # 201) => (scans' = scans /\ tasks' = tasks)
     /\ \A t \in NewTasks :
          t.via = "create" =>
            /\ last'.op = "create" /\ last'.code = 201 /\ last'.scan = t.scan
            /\ ~Exists(t.scan)
            /\ t.scan \in ScanIds /\ scans'[t.scan].status = "queued"]_vars

C7_Witness ==
  /\ last.op = "create" /\ last.code = 500
  /\ \A id \in ScanIds : ~Exists(id)
  /\ tasks = EmptyBag

\* C8: GET /results answers 200 with the stored summary and findings only when
\* the status read is completed, 409 "Scan is not completed yet" when the scan
\* exists with any other status, 404 when no scan has the id; GET /scans/{id}
\* answers 404 for an unknown id. (A failed store read answers 500.)
C8_ResultsAnswer ==
  /\ last.op = "getResults" =>
       /\ last.code \in {200, 404, 409, 500}
       /\ last.code = 200 =>
            /\ Exists(last.scan) /\ scans[last.scan].status = "completed"
            /\ last.summary = results[last.scan].summary
            /\ last.findings = results[last.scan].findings
       /\ last.code = 409 =>
            /\ Exists(last.scan) /\ scans[last.scan].status # "completed"
            /\ last.error = "Scan is not completed yet"
            /\ last.status = scans[last.scan].status
       /\ last.code = 404 => ~Exists(last.scan)
       /\ last.code = 500 => last.error \in {"Server error fetching scan", "thrown",
                                              "Server error fetching scan results"}
       /\ (last.code = 500 /\ last.error = "Server error fetching scan results")
            => (Exists(last.scan) /\ scans[last.scan].status = "completed")
  /\ last.op = "getScan" =>
       /\ last.code \in {200, 404, 500}
       /\ last.code = 404 <=> (~Exists(last.scan) /\ last.error = "Scan not found")
       /\ last.code = 200 => Exists(last.scan)

C8_Witness ==
  /\ last.op = "getResults" /\ last.code = 409
  /\ scans[last.scan].status = "queued"

\* C9: score is set only if status is completed and scan_error only if status
\* is failed.
C9_ScoreAndErrorMatchStatus ==
  \A id \in ScanIds :
    /\ scans[id].score # Null => scans[id].status = "completed"
    /\ scans[id].scan_error # "null" => scans[id].status = "failed"

(* ------------------------------------------------------------------ *)
(* Claims checked under SpecTime                                       *)
(* ------------------------------------------------------------------ *)
\* C10: created_at, started_at and completed_at are each written at most once and
\* satisfy created_at <= started_at <= completed_at whenever set; started_at is
\* written on the transition to running and completed_at on the transition to
\* completed or failed.
C10_TimestampsWrittenOnceInOrder ==
  [][\A id \in ScanIds :
       LET r == scans[id]
           r2 == scans'[id]
       IN /\ r.created_at # Null => r2.created_at = r.created_at
          /\ r.started_at # Null => r2.started_at = r.started_at
          /\ r.completed_at # Null => r2.completed_at = r.completed_at
          /\ r2.started_at # r.started_at =>
               (r2.status = "running" /\ r.status # "running")
          /\ r2.completed_at # r.completed_at =>
               (r2.status \in {"completed", "failed"} /\ r.status \notin Terminal)
          /\ (r2.created_at # Null /\ r2.started_at # Null) =>
               r2.created_at <= r2.started_at
          /\ (r2.started_at # Null /\ r2.completed_at # Null) =>
               r2.started_at <= r2.completed_at]_vars

(* ------------------------------------------------------------------ *)
(* Claims checked under SpecCap                                        *)
(* ------------------------------------------------------------------ *)
RunningScans == {id \in ScanIds : scans[id].status = "running"}

\* C2: at every moment at most 5 scans have status running, whether they enter
\* through POST /api/v1/scans or through the legacy trigger.
C2_AtMostFiveRunning == Cardinality(RunningScans) <= MAX_CONCURRENT_SCANS

\* the processScan call that took the capacity decision recorded in last'
Decider(t) ==
  /\ t \in BagToSet(tasks)
  /\ t.pc = "decide" /\ t.scan = last'.scan /\ t.cnt = last'.cnt

\* C3: when the number of running or queued scans that processScan read is
\* greater than 5, it sets its scan to failed with "Max concurrent scans reached"
\* and a completed_at, does not set it to running and does not run the probe; when
\* the number is 5 or less it sets the scan to running with a started_at and goes
\* on to the probe. (The row changes when the store applies the update.)
C3_CapacityDecision ==
  [][/\ last'.op \in {"admit", "reject"} =>
          \E t \in BagToSet(tasks) :
            /\ Decider(t)
            /\ (t.cnt > MAX_CONCURRENT_SCANS) <=> (last'.op = "reject")
            /\ last'.op = "reject" =>
                 /\ tasks' = Ended(t)
                 /\ (last'.out = "ok" /\ Exists(t.scan)) =>
                      /\ scans'[t.scan].status = "failed"
                      /\ scans'[t.scan].scan_error = CapacityError
                      /\ scans'[t.scan].completed_at = now
                 /\ \A id \in ScanIds :
                      scans'[id].status = "running" => scans[id].status = "running"
            /\ last'.op = "admit" =>
                 /\ (last'.out = "ok" /\ Exists(t.scan)) =>
                      /\ scans'[t.scan].status = "running"
                      /\ scans'[t.scan].started_at = now
                 /\ last'.out # "throw" =>
                      tasks' = Moved(t, [t EXCEPT !.pc = "probe", !.cnt = 0])
     /\ \A t \in BagToSet(tasks) :
          (t.pc = "decide" /\ CopiesIn(t, tasks') < CopiesIn(t, tasks))
            => last'.op \in {"admit", "reject"}]_vars

C3_Witness ==
  /\ last.op = "reject" /\ last.out = "ok" /\ last.cnt = MAX_CONCURRENT_SCANS + 1
  /\ scans[last.scan].status = "failed"
  /\ scans[last.scan].scan_error = CapacityError

(* ------------------------------------------------------------------ *)
(* Claims checked under SpecQueue                                      *)
(* ------------------------------------------------------------------ *)
\* C4: six scans are queued at the same time; at least one of them is moved from
\* queued to failed with the capacity error and none stays queued. Stated on
\* finite runs: once every processScan call has returned, one of the six is failed
\* with the capacity error and none is queued.
C4_OneOfSixRejected ==
  tasks = EmptyBag =>
    /\ \E id \in AllSix :
         scans[id].status = "failed" /\ scans[id].scan_error = CapacityError
    /\ \A id \in AllSix : scans[id].status # "queued"

(* ------------------------------------------------------------------ *)
(* Claims checked under SpecRate                                       *)
(* ------------------------------------------------------------------ *)
\* the admissions of caller c from time t to RATE_LIMIT_WINDOW_MS later
AdmittedFrom(c, t) ==
  {j \in 1..Len(admitted[c]) :
     admitted[c][j] >= t /\ admitted[c][j] - t <= RATE_LIMIT_WINDOW_MS}

\* C6: for every caller checkRateLimit admits at most 20 requests whose timestamps
\* lie within any 60-second window, and it rejects a request only when 20 requests
\* of that caller were admitted in the 60 seconds before it: of 21 attempts within
\* 60 seconds the first 20 are admitted and the 21st is rejected.
C6_AtMost20PerWindow ==
  /\ \A c \in Callers :
       \A i \in 1..Len(admitted[c]) :
         Cardinality(AdmittedFrom(c, admitted[c][i])) <= RATE_LIMIT_MAX_REQUESTS
  /\ (last.op = "create" /\ last.code = 429) =>
       Cardinality(AdmittedFrom(last.who, now - RATE_LIMIT_WINDOW_MS))
         = RATE_LIMIT_MAX_REQUESTS
  /\ (last.op = "create" /\ last.code # 429) =>
       /\ Len(admitted[last.who]) > 0
       /\ admitted[last.who][Len(admitted[last.who])] = now

C6_Witness ==
  /\ last.op = "create" /\ last.code = 429 /\ last.who = "a"
  /\ Len(admitted["a"]) = RATE_LIMIT_MAX_REQUESTS
  /\ now < RATE_LIMIT_WINDOW_MS

(* ------------------------------------------------------------------ *)
(* Claims C11..C13                                                     *)
(* ------------------------------------------------------------------ *)
\* C11: the scan_results row of a scan is written once and never changes
\* afterwards, also under repeated legacy triggers for the same scan id.
C11_ResultWrittenOnce ==
  [][\A id \in ScanIds : results[id].present => results'[id] = results[id]]_vars

\* C12: POST /api/v1/scans answers 201 {scan_id, status: "queued"} after inserting
\* the queued row and without waiting for processScan: in the step that answers,
\* the row is queued, its processScan call has not passed its first await, and no
\* result is stored.
C12_AnswersBeforeProbe ==
  [][(last'.op = "create" /\ last'.code = 201) =>
       /\ last'.status = "queued"
       /\ last'.scan \in ScanIds /\ ~Exists(last'.scan)
       /\ scans'[last'.scan].status = "queued"
       /\ ~results'[last'.scan].present
       /\ \E t \in BagToSet(tasks') :
            /\ t.scan = last'.scan /\ t.pc = "count" /\ t.res = NoProbe
            /\ CopiesIn(t, tasks') > CopiesIn(t, tasks)]_vars

C12_Witness ==
  /\ last.op = "create" /\ last.code = 201 /\ last.status = "queued"
  /\ scans[last.scan].status = "queued"
  /\ \E t \in BagToSet(tasks) : t.scan = last.scan /\ t.pc = "count"

\* the processScan calls in progress for scan id
TasksOf(id) ==
  BagCardinality([t \in {u \in BagToSet(tasks) : u.scan = id} |-> CopiesIn(t, tasks)])

\* C13: at most one processScan call ever processes a given scan, so two calls
\* never process the same scan at the same time.
C13_OneTaskPerScan == \A id \in ScanIds : TasksOf(id) <= 1

(* ------------------------------------------------------------------ *)
(* Claims checked under SpecValidate                                   *)
(* ------------------------------------------------------------------ *)
\* the last step answered a request whose target was drawn from RawTargets
Validated(op) == last.op = op /\ last.req # <<>>

AskedTarget == last.req[1].from
AskedDns == last.req[2]

BlockedError == "Target is blocked for security reasons"
InvalidUrlErrors == {"Invalid URL", "Target must use http:// or https://"}
NotAllowlistedError == "Target is not in allowlist"
PrivateAddressError == "Target resolves to a private address"

\* C14: every target whose host is localhost, under .local or .localhost, or a
\* literal address in 10/8, 127/8, 169.254/16, 172.16/12, 192.168/16, 0.0.0.0, ::1,
\* fc00::/7 or fe80::/10 is rejected with "Target is blocked for security
\* reasons", whatever the allow-list contains; stated for the targets written
\* with http:// or https://.
C14_BlockedHostsRejected ==
  (/\ Validated("create")
   /\ AskedTarget.raw.scheme \in {"http", "https"}
   /\ AskedTarget.host.blocked)
    => (last.code = 400 /\ last.error = BlockedError)

\* C15: a target written with ftp:// or without a scheme is rejected by
\* validateTargetUrl with an invalid-URL error, a target is accepted only with
\* http or https, and no scan row is created for such a target by a handler that
\* calls the validator.
C15_OnlyHttpSchemes ==
  [][(last'.op \in {"create", "legacy"} /\ last'.req # <<>>) =>
       LET t == last'.req[1].from
           v == validateTargetUrl(NewURL(t.raw), allowlist, last'.req[2])
       IN /\ t.raw.scheme \in {"ftp", "none"} =>
               /\ v \in InvalidUrlErrors
               /\ scans' = scans
               /\ last'.op = "create" =>
                    (last'.code = 400 /\ last'.error = v /\ tasks' = tasks)
          /\ v = ValidTarget => t.raw.scheme \in {"http", "https"}
          /\ (last'.op = "create" /\ last'.code = 201) =>
               t.raw.scheme \in {"http", "https"}]_vars

C15_Witness ==
  /\ Validated("create") /\ AskedTarget.raw.scheme = "ftp"
  /\ ~AskedTarget.host.blocked
  /\ last.code = 400 /\ last.error = "Target must use http:// or https://"
  /\ \A id \in ScanIds : ~Exists(id)

\* the validator got as far as the allow-list for the last create request
ReachedAllowlist ==
  /\ Validated("create")
  /\ last.error \notin InvalidUrlErrors \cup {BlockedError}

\* host is entry or ends with "." and entry, letter case aside
ListedUnder(host, entry) ==
  \/ toLowerCase(host) = toLowerCase(entry)
  \/ \E k \in 2..Len(host) :
       /\ host[k] = "."
       /\ toLowerCase(SubSeq(host, k + 1, Len(host))) = toLowerCase(entry)

ReachedDns ==
  /\ ReachedAllowlist
  /\ last.error # NotAllowlistedError

\* C17: a target is rejected when the A or the AAAA lookup succeeds and returns a
\* private or loopback address, and is not rejected because a lookup failed: a
\* failed A lookup does not skip the AAAA lookup, and a target whose lookups
\* both fail passes validation.
C17_DnsDecides ==
  ReachedDns =>
    /\ (last.error = PrivateAddressError)
         <=> \/ (AskedDns.a.ok /\ AskedDns.a.ips = PrivateA)
             \/ (AskedDns.aaaa.ok /\ AskedDns.aaaa.ips = PrivateAAAA)
    /\ (~AskedDns.a.ok /\ ~AskedDns.aaaa.ok) => last.code = 201

C17_Witness ==
  /\ ReachedDns /\ last.error = PrivateAddressError
  /\ ~AskedDns.a.ok /\ AskedDns.aaaa.ok

(* ------------------------------------------------------------------ *)
(* Claims checked under SpecProbe                                      *)
(* ------------------------------------------------------------------ *)
Penalty(c, h, m, l) == 25 * c + 15 * h + 8 * m + 3 * l

ExpectedScore(c, h, m, l) ==
  IF Penalty(c, h, m, l) > 100 THEN 0 ELSE 100 - Penalty(c, h, m, l)

ExpectedRisk(score) ==
  CASE score >= 85 -> "low"
    [] score >= 60 /\ score < 85 -> "medium"
    [] score < 60 -> "high"

Severities(findings, severity) ==
  Cardinality({i \in DOMAIN findings : findings[i].severity = severity})

\* the summary is the one the claim prescribes for the findings
SummaryOf(summary, findings) ==
  LET c == Severities(findings, "critical")
      h == Severities(findings, "high")
      m == Severities(findings, "medium")
      l == Severities(findings, "low")
  IN /\ summary.issue_counts = [critical |-> c, high |-> h, medium |-> m, low |-> l]
     /\ summary.score = ExpectedScore(c, h, m, l)
     /\ summary.score \in 0..100
     /\ summary.risk = ExpectedRisk(summary.score)

\* C18: for c critical, h high, m medium and l low findings the score is
\* max(0, 100 - 25c - 15h - 8m - 3l), lies in 0..100 and is a function of the four
\* counts, the risk label is low from 85, medium from 60 to 84 and high below 60;
\* the score and counts written on the completed scan are those of the summary
\* the probe returned.
C18_ScoreFromCounts ==
  [][/\ last'.op = "probe" =>
          /\ \A t \in BagToSet(tasks') :
               t.pc = "upsert" => SummaryOf(t.res.summary, t.res.findings)
          /\ \A c, h, m, l \in 0..MaxCount :
               LET score == Score([critical |-> c, high |-> h, medium |-> m, low |-> l])
               IN /\ score = ExpectedScore(c, h, m, l)
                  /\ score \in 0..100
                  /\ Risk(score) = ExpectedRisk(score)
     /\ last'.op = "complete" =>
          \A t \in BagToSet(tasks) :
            (t.pc = "complete" /\ scans'[t.scan].status = "completed") =>
              /\ scans'[t.scan].score = t.res.summary.score
              /\ scans'[t.scan].counts = t.res.summary.issue_counts
              /\ SummaryOf(t.res.summary, t.res.findings)]_vars

C18_Witness ==
  /\ last.op = "complete"
  /\ scans[1].status = "completed"
  /\ scans[1].score = 61
  /\ scans[1].counts = [critical |-> 0, high |-> 1, medium |-> 3, low |-> 0]
  /\ results[1].present /\ results[1].summary.risk = "medium"

TitleOf(header) ==
  CASE header = "Strict-Transport-Security" -> "Missing HSTS header"
    [] header = "X-Content-Type-Options" -> "Missing X-Content-Type-Options header"
    [] header = "Content-Security-Policy" -> "Missing Content-Security-Policy header"

\* C19: after a successful GET the findings hold exactly one medium finding for
\* each of the three security headers absent from the response and none for a
\* header that is present; for a target reached over https with none of the
\* three headers the result is exactly three medium findings and score 76.
C19_OneFindingPerMissingHeader ==
  [][last'.op = "probe" =>
       LET head == last'.req[1]
           get == last'.req[2]
       IN \A t \in BagToSet(tasks') :
            t.pc = "upsert" =>
              LET f == t.res.findings
              IN /\ get.ok =>
                      /\ \A header \in SecurityHeaders :
                           Cardinality({i \in DOMAIN f : f[i].title = TitleOf(header)})
                             = IF header \in get.headers THEN 0 ELSE 1
                      /\ \A i \in DOMAIN f :
                           f[i].severity = "medium"
                             <=> \E header \in SecurityHeaders \ get.headers :
                                   f[i].title = TitleOf(header)
                 /\ (head = "https" /\ get.ok /\ get.headers = {}) =>
                      /\ Len(f) = 3
                      /\ \A i \in DOMAIN f : f[i].severity = "medium"
                      /\ t.res.summary.score = 76]_vars

C19_Witness ==
  /\ last.op = "probe"
  /\ last.req = <<"https", [ok |-> TRUE, headers |-> {}]>>
  /\ \E t \in BagToSet(tasks) :
       t.pc = "upsert" /\ Len(t.res.findings) = 3 /\ t.res.summary.score = 76

(* ------------------------------------------------------------------ *)
(* Cancellation and progress, checked under Spec                       *)
(* ------------------------------------------------------------------ *)
ProcessSteps == {"count", "reject", "admit", "probe", "upsert", "complete", "catch"}

\* C20: a scan becomes canceled only from queued; a running scan is never
\* canceled and goes on to completed or failed, so it changes status only to
\* one of these and keeps a processScan call in progress until it does; only
\* the scan's own processing or a cancellation moves a scan out of queued.
C20_CancelOnlyQueuedRunningProceeds ==
  [][\A id \in ScanIds :
       /\ (scans'[id].status = "canceled" /\ scans[id].status # "canceled")
            => scans[id].status = "queued"
       /\ (scans[id].status = "running" /\ scans'[id].status # "running")
            => scans'[id].status \in {"completed", "failed"}
       /\ (scans[id].status = "queued" /\ scans'[id].status # "queued")
            => last'.op \in ProcessSteps
       /\ scans'[id].status = "running"
            => \E t \in BagToSet(tasks') : t.scan = id]_vars

(* ------------------------------------------------------------------ *)
(* Failures inside processScan, checked under SpecProbe                *)
(* ------------------------------------------------------------------ *)
\* C21: when something throws inside processScan after the scan was set to
\* running, the catch block leaves the scan failed, with scan_error the thrown
\* message and completed_at set: the scan is not left running.
C21_ThrowEndsFailed ==
  [][last'.op = "catch" =>
       \A t \in BagToSet(tasks) :
         t.pc = "catch" =>
           /\ scans'[t.scan].status = "failed"
           /\ scans'[t.scan].scan_error = ThrownError
           /\ scans'[t.scan].completed_at # Null]_vars

\* C22: a scan observed completed has its scan_results row, and a 200 answer of
\* GET /results never carries the default empty summary.
C22_CompletedHasResult ==
  /\ \A id \in ScanIds : scans[id].status = "completed" => results[id].present
  /\ (last.op = "getResults" /\ last.code = 200) =>
       (last.summary # NoSummary /\ results[last.scan].present)

\* C23: on POST /api/v1/scans the rate limiter is consulted, and an admission
\* recorded, only for a request whose target has passed validation.
C23_AdmissionOnlyAfterValidation ==
  [][(last'.op = "create" /\ rateLimiter' # rateLimiter) =>
       /\ last'.req[1].hasTarget
       /\ validateTargetUrl(last'.req[1].target, allowlist, last'.req[2]) = ValidTarget]_vars

(* ------------------------------------------------------------------ *)
(* The limiter's map, checked under SpecRate                           *)
(* ------------------------------------------------------------------ *)
\* the timestamps of seq not older than the window at time t, in their order
NotOlder(seq, t) == SelectSeq(seq, LAMBDA ts : ~(t - ts > RATE_LIMIT_WINDOW_MS))

\* C24: a call checkRateLimit rejects records no timestamp and leaves the map
\* unchanged; a call it admits appends exactly one timestamp, the current time,
\* for that caller, drops only that caller's timestamps older than 60 seconds,
\* and leaves every other caller's entry unchanged.
C24_LimiterFrame ==
  [][last'.op = "create" =>
       LET c == last'.who
       IN /\ \A d \in Callers \ {c} : rateLimiter'[d] = rateLimiter[d]
          /\ last'.code = 429 => (rateLimiter' = rateLimiter /\ admitted' = admitted)
          /\ last'.code # 429 =>
               /\ rateLimiter'[c] = NotOlder(rateLimiter[c], now) \o <<now>>
               /\ Len(rateLimiter'[c]) <= RATE_LIMIT_MAX_REQUESTS]_vars

C24_Witness ==
  /\ last.op = "create" /\ last.code = 429 /\ last.who = "a"
  /\ now >= RATE_LIMIT_WINDOW_MS
  /\ Len(rateLimiter["a"]) = RATE_LIMIT_MAX_REQUESTS
  /\ rateLimiter["b"] # <<>>

(* ------------------------------------------------------------------ *)
(* Probe failures, checked under SpecProbe                             *)
(* ------------------------------------------------------------------ *)
Titled(findings, title) == {i \in DOMAIN findings : findings[i].title = title}

HeaderTitles == {TitleOf(header) : header \in SecurityHeaders}

\* C25: a failed HEAD records one high "Target unreachable" finding and the GET
\* is still issued; a failed GET adds "Target unreachable" only if none was
\* recorded; so a result holds at most one "Target unreachable" finding, no
\* header finding when the GET failed, and "No HTTPS enforced" exactly when the
\* HEAD succeeded with a final URL that does not start with https://.
C25_UnreachableOnce ==
  [][last'.op = "probe" =>
       LET head == last'.req[1]
           get == last'.req[2]
       IN \A t \in BagToSet(tasks') :
            t.pc = "upsert" =>
              LET f == t.res.findings
                  unreachable == Titled(f, "Target unreachable")
              IN /\ Cardinality(unreachable) = IF head = "fail" \/ ~get.ok THEN 1 ELSE 0
                 /\ \A i \in unreachable : f[i].severity = "high"
                 /\ head = "fail" => f[1].title = "Target unreachable"
                 /\ (head = "fail" /\ get.ok) =>
                      \A header \in SecurityHeaders \ get.headers :
                        Cardinality(Titled(f, TitleOf(header))) = 1
                 /\ ~get.ok => \A i \in DOMAIN f : f[i].title \notin HeaderTitles
                 /\ Cardinality(Titled(f, "No HTTPS enforced"))
                      = IF head = "http" THEN 1 ELSE 0]_vars

C25_Witness ==
  /\ last.op = "probe"
  /\ last.req = <<"fail", [ok |-> FALSE, headers |-> {}]>>
  /\ \E t \in BagToSet(tasks) :
       /\ t.pc = "upsert"
       /\ t.res.findings = <<[title |-> "Target unreachable", severity |-> "high"]>>

Unreachable == <<"fail", [ok |-> FALSE, headers |-> {}]>>

C27_NotAllRejected ==
  ~\A id \in AllSix :
     scans[id].status = "failed" /\ scans[id].scan_error = CapacityError

(* ------------------------------------------------------------------ *)
(* The range of the probe's results, checked under SpecProbe           *)
(* ------------------------------------------------------------------ *)
InRange(res) ==
  LET f == res.findings
      high == Severities(f, "high")
      medium == Severities(f, "medium")
  IN /\ Len(f) <= 4
     /\ Severities(f, "critical") = 0 /\ Severities(f, "low") = 0
     /\ high <= 2 /\ medium <= 3
     /\ ~(high = 2 /\ medium > 0)
     /\ res.summary.score >= 61
     /\ res.summary.risk # "high"

\* C28: every result of runLightweightSecurityScan holds at most 4 findings, none
\* critical or low, at most 2 high and at most 3 medium, never 2 high together
\* with a medium; its score is at least 61 and its risk label is never high.
C28_ProbeResultRange ==
  /\ \A t \in BagToSet(tasks) : t.pc \in {"upsert", "complete"} => InRange(t.res)
  /\ \A id \in ScanIds :
       results[id].present =>
         InRange([summary |-> results[id].summary, findings |-> results[id].findings])

C28_Witness ==
  /\ last.op = "probe"
  /\ \E t \in BagToSet(tasks) :
       /\ t.pc = "upsert"
       /\ Len(t.res.findings) = 4
       /\ t.res.summary.score = 61 /\ t.res.summary.risk = "medium"

(* ------------------------------------------------------------------ *)
(* Claims checked under SpecAi                                         *)
(* ------------------------------------------------------------------ *)
\* C29: every scan the AI security-scan handler sets to running is completed or
\* failed when the handler answers, whatever the inference call comes to.
C29_AiAnswersAfterSettling ==
  (last.op = "ai" /\ last.scan \in ScanIds) => scans[last.scan].status # "running"

(* ------------------------------------------------------------------ *)
(* Public names, checked under SpecValidate                            *)
(* ------------------------------------------------------------------ *)
\* C30: with an empty allow-list and public DNS answers every http or https
\* target whose host is a public DNS name is accepted and never rejected as
\* blocked, names that begin with "fc" or "fd" included.
C30_PublicNamesAccepted ==
  (/\ Validated("create")
   /\ AskedTarget \in PublicNames
   /\ AskedDns = PublicAnswers
   /\ allowlist = {})
    => (last.error # BlockedError /\ last.code = 201)

====
